---- MODULE Spec2Model ----
(***************************************************************************)
(* Enrichment-and-aggregation pipeline of the hospital digital twin:       *)
(*   src/src/processor/main.py      on_message (the consumer callback)     *)
(*   src/src/processor/enricher.py  process_device_message / _network_     *)
(*   src/src/utils/db_connector.py  fetch_one_as_dict / store_event        *)
(*   src/src/digital_twin/manager.py, models.py  the three twin kinds      *)
(*                                                                         *)
(* Python values are tagged records: None, str (a sequence of one-char     *)
(* strings), int, bool and dict (a function from key names to values).     *)
(***************************************************************************)
EXTENDS FiniteSets, Integers, Sequences, TLC

VARIABLES patients, devices, networks, running, msgs, log, prev, last, held, recent

vars == <<patients, devices, networks, running, msgs, log, prev, last, held, recent>>

(***************************************************************************)
(* Bounds of the model.                                                    *)
(***************************************************************************)
MaxMsgs == 2

MaxFaults == 1

(***************************************************************************)
(* Python values.                                                          *)
(***************************************************************************)
NoneV == [k |-> "none"]

PyStr(s) == [k |-> "str", s |-> s]

PyInt(n) == [k |-> "int", n |-> n]

PyBool(b) == [k |-> "bool", b |-> b]

PyDict(f) == [k |-> "dict", d |-> f]

\* an empty mapping: {} 
EmptyMap == [x \in {} |-> x]

EmptyDict == PyDict(EmptyMap)

\* bool(v): Python truthiness, as used by `if patient_id:` and `if device_info:`
Truthy(v) ==
    CASE v.k = "none" -> FALSE
      [] v.k = "str"  -> Len(v.s) > 0
      [] v.k = "int"  -> v.n # 0
      [] v.k = "bool" -> v.b
      [] v.k = "dict" -> DOMAIN v.d # {}

\* hash(v): dict keys must be hashable, a dict is not
Hashable(v) == v.k # "dict"

\* the result of an expression that may raise
Ok(v) == [exc |-> FALSE, val |-> v]

Raise == [exc |-> TRUE, val |-> NoneV]

\* x.get(key, default): AttributeError unless x is a dict
DictGet(x, key, default) ==
    IF x.k # "dict" THEN Raise
    ELSE IF key \in DOMAIN x.d THEN Ok(x.d[key]) ELSE Ok(default)

\* `key in event` for the event dict
HasKey(x, key) == key \in DOMAIN x.d

\* target.update(source) on two dicts
DictUpdate(target, source) == PyDict(source.d @@ target.d)

\* target[key] = value
DictSet(target, key, value) == PyDict((key :> value) @@ target.d)

(***************************************************************************)
(* Strings: sequences of characters.                                       *)
(***************************************************************************)
Digits == {"0", "1", "2", "3", "4", "5", "6", "7", "8", "9"}

DigitVal(c) ==
    CASE c = "0" -> 0 [] c = "1" -> 1 [] c = "2" -> 2 [] c = "3" -> 3
      [] c = "4" -> 4 [] c = "5" -> 5 [] c = "6" -> 6 [] c = "7" -> 7
      [] c = "8" -> 8 [] c = "9" -> 9

\* a byte that is no valid UTF-8
BadByte == "\\xff"

\* msg.payload.decode('utf-8'): UnicodeDecodeError on an invalid byte
decode(bytes) ==
    IF \E i \in 1..Len(bytes) : bytes[i] = BadByte THEN Raise ELSE Ok(bytes)

RECURSIVE SplitFrom(_, _, _)
\* the fields of s from position i on, cur being the field under construction
SplitFrom(s, i, cur) ==
    IF i > Len(s) THEN <<cur>>
    ELSE IF s[i] = "," THEN <<cur>> \o SplitFrom(s, i + 1, <<>>)
    ELSE SplitFrom(s, i + 1, Append(cur, s[i]))

\* payload.split(',')
split(s) == SplitFrom(s, 1, <<>>)

RECURSIVE Strip(_)
\* s.strip() for the blank
Strip(s) ==
    IF s = <<>> THEN s
    ELSE IF Head(s) = " " THEN Strip(Tail(s))
    ELSE IF s[Len(s)] = " " THEN Strip(SubSeq(s, 1, Len(s) - 1))
    ELSE s

RECURSIVE DigitsValue(_, _)
DigitsValue(s, acc) ==
    IF s = <<>> THEN acc
    ELSE IF Head(s) = "_" THEN DigitsValue(Tail(s), acc)
    ELSE DigitsValue(Tail(s), 10 * acc + DigitVal(Head(s)))

\* a decimal literal: digits, single underscores only between digits
IsDigitString(s) ==
    /\ Len(s) > 0
    /\ \A i \in 1..Len(s) : s[i] \in Digits \cup {"_"}
    /\ s[1] # "_"
    /\ s[Len(s)] # "_"
    /\ \A i \in 1..(Len(s) - 1) : ~(s[i] = "_" /\ s[i + 1] = "_")

\* a conversion that yields 0 where int raises
int_or_zero(s) ==
    LET t == Strip(s)
        signed == Len(t) > 0 /\ t[1] \in {"+", "-"}
        body == IF signed THEN Tail(t) ELSE t
    IN  IF ~IsDigitString(body) THEN Ok(PyInt(0))
        ELSE IF signed /\ t[1] = "-" THEN Ok(PyInt(0 - DigitsValue(body, 0)))
        ELSE Ok(PyInt(DigitsValue(body, 0)))

\* int(s): ValueError unless s is an optionally signed decimal literal
int(s) ==
    LET t == Strip(s)
        signed == Len(t) > 0 /\ t[1] \in {"+", "-"}
        body == IF signed THEN Tail(t) ELSE t
    IN  IF ~IsDigitString(body) THEN Raise
        ELSE IF signed /\ t[1] = "-" THEN Ok(PyInt(0 - DigitsValue(body, 0)))
        ELSE Ok(PyInt(DigitsValue(body, 0)))

\* the pattern (PAT-\d+) matches at position i of s
MatchAt(s, i) ==
    /\ i + 4 <= Len(s)
    /\ s[i] = "P" /\ s[i + 1] = "A" /\ s[i + 2] = "T" /\ s[i + 3] = "-"
    /\ s[i + 4] \in Digits

\* re.match in place of re.search: a match only at the start of s
re_match(s) ==
    IF ~MatchAt(s, 1) THEN [found |-> FALSE, group |-> <<>>]
    ELSE LET j == CHOOSE x \in 5..Len(s) :
                      /\ \A y \in 5..x : s[y] \in Digits
                      /\ (x = Len(s) \/ s[x + 1] \notin Digits)
         IN  [found |-> TRUE, group |-> SubSeq(s, 1, j)]

\* re.search(r'(PAT-\d+)', s): the leftmost match, its digits taken greedily
re_search(s) ==
    IF ~\E i \in 1..Len(s) : MatchAt(s, i) THEN [found |-> FALSE, group |-> <<>>]
    ELSE LET i == CHOOSE x \in 1..Len(s) :
                      MatchAt(s, x) /\ \A y \in 1..(x - 1) : ~MatchAt(s, y)
             j == CHOOSE x \in (i + 4)..Len(s) :
                      /\ \A y \in (i + 4)..x : s[y] \in Digits
                      /\ (x = Len(s) \/ s[x + 1] \notin Digits)
         IN  [found |-> TRUE, group |-> SubSeq(s, i, j)]

(***************************************************************************)
(* The twins (digital_twin/models.py).  A method is a list of statements   *)
(* run on [obj, exc]: a statement that raises leaves the assignments made  *)
(* before it in place and skips the rest.                                  *)
(***************************************************************************)
St(obj) == [obj |-> obj, exc |-> FALSE]

\* an assignment that keeps a value the field already has
AssignOnce(st, field, r) ==
    IF st.exc THEN st
    ELSE IF r.exc THEN [obj |-> st.obj, exc |-> TRUE]
    ELSE IF st.obj[field] # NoneV THEN st
    ELSE [obj |-> [st.obj EXCEPT ![field] = r.val], exc |-> FALSE]

\* self.<field> = <r>, where evaluating r may raise
Assign(st, field, r) ==
    IF st.exc THEN st
    ELSE IF r.exc THEN [obj |-> st.obj, exc |-> TRUE]
    ELSE [obj |-> [st.obj EXCEPT ![field] = r.val], exc |-> FALSE]

\* `key in x`: a key test on a dict, a substring test on a str (no string of
\* the model holds a key name), TypeError on None, int and bool
In(key, x) ==
    CASE x.k = "dict" -> Ok(key \in DOMAIN x.d)
      [] x.k = "str"  -> Ok(FALSE)
      [] OTHER        -> [exc |-> TRUE, val |-> FALSE]

\* the same with .get(<key>) in place of .get(<key>, self.<field>)
SectionGetOrNone(st, event, section, field, key) ==
    IF st.exc \/ ~HasKey(event, section) THEN st
    ELSE Assign(st, field, DictGet(event.d[section], key, NoneV))

\* if <section> in event: self.<field> = event[<section>].get(<key>, self.<field>)
SectionGet(st, event, section, field, key) ==
    IF st.exc \/ ~HasKey(event, section) THEN st
    ELSE Assign(st, field, DictGet(event.d[section], key, st.obj[field]))

\* `outer in event and inner in event[outer]`
HasNested(event, outer, inner) ==
    IF HasKey(event, outer) THEN In(inner, event.d[outer])
    ELSE [exc |-> FALSE, val |-> FALSE]

\* if outer in event and inner in event[outer]:
\*     self.<field> = event[outer][inner].get(<key>, self.<field>)
NestedGetInto(st, event, outer, inner, field, key) ==
    IF st.exc THEN st
    ELSE IF HasNested(event, outer, inner).exc THEN [st EXCEPT !.exc = TRUE]
    ELSE IF ~HasNested(event, outer, inner).val THEN st
    ELSE Assign(st, field, DictGet(event.d[outer].d[inner], key, st.obj[field]))

\* if outer in event and inner in event[outer]:
\*     self.<field> = event[outer].get(<key>, self.<field>)
GuardedGetInto(st, event, outer, inner, field, key) ==
    IF st.exc THEN st
    ELSE IF HasNested(event, outer, inner).exc THEN [st EXCEPT !.exc = TRUE]
    ELSE IF ~HasNested(event, outer, inner).val THEN st
    ELSE Assign(st, field, DictGet(event.d[outer], key, st.obj[field]))

PatientDT(patient_id) ==
    [patient_id |-> patient_id, full_name |-> NoneV, current_room |-> NoneV,
     last_heart_rate |-> NoneV, last_spo2 |-> NoneV, last_device_status |-> NoneV,
     last_metric_update |-> NoneV, last_accessed_by_user_id |-> NoneV,
     last_access_action |-> NoneV, last_access_time |-> NoneV]

\* the same method writing the timestamp to last_access_time as well
PatientDT_update_from_medical_stamping(self, event) ==
    LET s0 == Assign(St(self), "last_access_time", DictGet(event, "timestamp", NoneV))
        s1 == Assign(s0, "last_metric_update", DictGet(event, "timestamp", NoneV))
        s2 == SectionGet(s1, event, "patient", "full_name", "full_name")
        s3 == SectionGet(s2, event, "patient", "current_room", "current_room")
        s4 == NestedGetInto(s3, event, "device", "metrics",
                            "last_heart_rate", "heart_rate_bpm")
        s5 == NestedGetInto(s4, event, "device", "metrics", "last_spo2", "spo2_percent")
        s6 == GuardedGetInto(s5, event, "device", "metrics",
                             "last_device_status", "status")
    IN  s6

PatientDT_update_from_medical_event(self, event) ==
    LET s1 == Assign(St(self), "last_metric_update", DictGet(event, "timestamp", NoneV))
        s2 == SectionGet(s1, event, "patient", "full_name", "full_name")
        s3 == SectionGet(s2, event, "patient", "current_room", "current_room")
        s4 == NestedGetInto(s3, event, "device", "metrics",
                            "last_heart_rate", "heart_rate_bpm")
        s5 == NestedGetInto(s4, event, "device", "metrics", "last_spo2", "spo2_percent")
        s6 == GuardedGetInto(s5, event, "device", "metrics",
                             "last_device_status", "status")
    IN  s6

PatientDT_update_from_network_event(self, event) ==
    LET s1 == Assign(St(self), "last_access_time", DictGet(event, "timestamp", NoneV))
        s2 == SectionGet(s1, event, "user", "last_accessed_by_user_id", "id")
        s3 == SectionGet(s2, event, "action", "last_access_action", "type")
    IN  s3

DeviceDT(device_id) ==
    [device_id |-> device_id, device_type |-> NoneV, location |-> NoneV,
     department |-> NoneV, ip_address |-> NoneV, status |-> NoneV,
     current_patient_id |-> NoneV, last_metric_update |-> NoneV,
     last_user_id |-> NoneV, last_action_from_device |-> NoneV,
     last_network_update |-> NoneV]

\* the same method keeping the link when the event names no patient
DeviceDT_update_keeping_patient(self, event, patient_id) ==
    LET s1 == Assign(St(self), "last_metric_update", DictGet(event, "timestamp", NoneV))
        s2 == IF Truthy(patient_id) THEN Assign(s1, "current_patient_id", Ok(patient_id))
              ELSE s1
        s3 == SectionGet(s2, event, "device", "device_type", "device_type")
        s4 == SectionGet(s3, event, "device", "location", "location")
        s5 == SectionGet(s4, event, "device", "department", "department")
        s6 == SectionGet(s5, event, "device", "ip_address", "ip_address")
        s7 == SectionGet(s6, event, "device", "status", "status")
    IN  s7

DeviceDT_update_from_medical_event(self, event, patient_id) ==
    LET s1 == Assign(St(self), "last_metric_update", DictGet(event, "timestamp", NoneV))
        s2 == Assign(s1, "current_patient_id", Ok(patient_id))
        s3 == SectionGet(s2, event, "device", "device_type", "device_type")
        s4 == SectionGet(s3, event, "device", "location", "location")
        s5 == SectionGet(s4, event, "device", "department", "department")
        s6 == SectionGet(s5, event, "device", "ip_address", "ip_address")
        s7 == SectionGet(s6, event, "device", "status", "status")
    IN  s7

\* the same method ending the device's link to its patient
DeviceDT_update_from_network_unlinking(self, event) ==
    LET s0 == Assign(St(self), "current_patient_id", Ok(NoneV))
        s1 == Assign(s0, "last_network_update", DictGet(event, "timestamp", NoneV))
        s2 == SectionGet(s1, event, "user", "last_user_id", "id")
        s3 == SectionGet(s2, event, "action", "last_action_from_device", "type")
        s4 == NestedGetInto(s3, event, "network", "source_device_details",
                            "device_type", "device_type")
        s5 == NestedGetInto(s4, event, "network", "source_device_details",
                            "location", "location")
    IN  s5

\* the same method writing the timestamp to last_metric_update as well
DeviceDT_update_from_network_stamping(self, event) ==
    LET s0 == Assign(St(self), "last_metric_update", DictGet(event, "timestamp", NoneV))
        s1 == Assign(s0, "last_network_update", DictGet(event, "timestamp", NoneV))
        s2 == SectionGet(s1, event, "user", "last_user_id", "id")
        s3 == SectionGet(s2, event, "action", "last_action_from_device", "type")
        s4 == NestedGetInto(s3, event, "network", "source_device_details",
                            "device_type", "device_type")
        s5 == NestedGetInto(s4, event, "network", "source_device_details",
                            "location", "location")
    IN  s5

DeviceDT_update_from_network_event(self, event) ==
    LET s1 == Assign(St(self), "last_network_update", DictGet(event, "timestamp", NoneV))
        s2 == SectionGet(s1, event, "user", "last_user_id", "id")
        s3 == SectionGet(s2, event, "action", "last_action_from_device", "type")
        s4 == NestedGetInto(s3, event, "network", "source_device_details",
                            "device_type", "device_type")
        s5 == NestedGetInto(s4, event, "network", "source_device_details",
                            "location", "location")
    IN  s5

NetworkDT(source_ip) ==
    [source_ip |-> source_ip, last_user_id |-> NoneV, last_device_id |-> NoneV,
     last_action |-> NoneV, last_target_resource |-> NoneV,
     last_log_source |-> NoneV, last_update |-> NoneV]

NetworkDT_update_from_network_event(self, event) ==
    LET s1 == Assign(St(self), "last_update", DictGet(event, "timestamp", NoneV))
        s2 == SectionGet(s1, event, "user", "last_user_id", "id")
        s3 == SectionGet(s2, event, "action", "last_action", "type")
        s4 == SectionGet(s3, event, "action", "last_target_resource",
                         "target_resource_id")
        s5 == SectionGet(s4, event, "network", "last_log_source", "log_source")
        s6 == NestedGetInto(s5, event, "network", "source_device_details",
                            "last_device_id", "device_id")
    IN  s6

(***************************************************************************)
(* HospitalDT (digital_twin/manager.py).  h is the manager during a call:  *)
(* the three collections, the updated_states list built so far and whether *)
(* an exception was raised inside the try block.  An entry of              *)
(* updated_states is a reference to the live twin (get_state returns the   *)
(* object's own __dict__), named by its kind and key.                      *)
(***************************************************************************)
HospitalDT == [patients |-> EmptyMap, devices |-> EmptyMap, networks |-> EmptyMap]

Call(hdt) ==
    [patients |-> hdt.patients, devices |-> hdt.devices, networks |-> hdt.networks,
     updated_states |-> <<>>, exc |-> FALSE]

\* <Class>(key), the constructor of the twin kind dt
New(dt, key) ==
    CASE dt = "PatientDT" -> PatientDT(key)
      [] dt = "DeviceDT"  -> DeviceDT(key)
      [] dt = "NetworkDT" -> NetworkDT(key)

\* self.update_from_medical_event(...) or self.update_from_network_event(event)
Update(dt, method, self, event, patient_id) ==
    CASE dt = "PatientDT" /\ method = "medical" ->
             PatientDT_update_from_medical_event(self, event)
      [] dt = "PatientDT" /\ method = "network" ->
             PatientDT_update_from_network_event(self, event)
      [] dt = "DeviceDT" /\ method = "medical" ->
             DeviceDT_update_from_medical_event(self, event, patient_id)
      [] dt = "DeviceDT" /\ method = "network" ->
             DeviceDT_update_from_network_event(self, event)
      [] dt = "NetworkDT" ->
             NetworkDT_update_from_network_event(self, event)

\* the collection of the twin kind dt
Coll(dt) ==
    CASE dt = "PatientDT" -> "patients"
      [] dt = "DeviceDT"  -> "devices"
      [] dt = "NetworkDT" -> "networks"

\* a collection rebuilt around the one key, the others dropped
Rebuilt(c, dt, key) == key :> (IF key \in DOMAIN c THEN c[key] ELSE New(dt, key))

\* the insertion of a twin constructed without its key
CreatedUnkeyed(c, dt, key) == IF key \in DOMAIN c THEN c ELSE (key :> New(dt, NoneV)) @@ c

\* the insertion, if the key is new
Created(c, dt, key) == IF key \in DOMAIN c THEN c ELSE (key :> New(dt, key)) @@ c

\* the manager once the twin's update method has run: r is the twin after it
\* and whether it raised; the entry is appended only if it did not
Updated(h, dt, key, r) ==
    [h EXCEPT ![Coll(dt)] = [Created(@, dt, key) EXCEPT ![key] = r.obj],
              !.exc = r.exc,
              !.updated_states = IF r.exc THEN @ ELSE Append(@, [dt |-> dt, key |-> key])]

\* if key not in self.<coll>: self.<coll>[key] = <Class>(key)
\* self.<coll>[key].update_from_..._event(event)
\* updated_states.append((dt, self.<coll>[key].get_state()))
Touch(h, dt, key, method, event, patient_id) ==
    IF ~Hashable(key) THEN [h EXCEPT !.exc = TRUE]
    ELSE Updated(h, dt, key,
                 Update(dt, method, Created(h[Coll(dt)], dt, key)[key], event, patient_id))

\* event.get(outer, {}).get(inner, default)
NestedGet(event, outer, inner, default) ==
    DictGet(DictGet(event, outer, EmptyDict).val, inner, default)

\* the routing without the `if key:` test
TouchAlways(h, dt, key, method, event, patient_id) ==
    IF h.exc THEN h ELSE Touch(h, dt, key, method, event, patient_id)

\* if key: <Touch>
TouchIf(h, dt, key, method, event, patient_id) ==
    IF h.exc \/ ~Truthy(key) THEN h ELSE Touch(h, dt, key, method, event, patient_id)

\* the branch `if event_type == 'MedicalDeviceLog':`
UpdateMedical(h, event) ==
    LET patient_id == NestedGet(event, "patient", "id", NoneV)
        device_id  == NestedGet(event, "device", "id", NoneV)
    IN  IF patient_id.exc \/ device_id.exc THEN [h EXCEPT !.exc = TRUE]
        ELSE TouchIf(TouchIf(h, "PatientDT", patient_id.val, "medical", event, NoneV),
                     "DeviceDT", device_id.val, "medical", event, patient_id.val)

\* 1. Update NetworkDT (based on source_ip)
UpdateNetworkDT(h, event) ==
    LET source_ip == NestedGet(event, "network", "source_ip", NoneV)
    IN  IF source_ip.exc THEN [h EXCEPT !.exc = TRUE]
        ELSE TouchIf(h, "NetworkDT", source_ip.val, "network", event, NoneV)

\* 2. Update DeviceDT (based on device_id from network block)
UpdateDeviceDT(h, event) ==
    LET details == NestedGet(event, "network", "source_device_details", EmptyDict)
        device_id == IF details.exc THEN Raise
                     ELSE DictGet(details.val, "device_id", NoneV)
    IN  IF h.exc THEN h
        ELSE IF device_id.exc THEN [h EXCEPT !.exc = TRUE]
        ELSE TouchIf(h, "DeviceDT", device_id.val, "network", event, NoneV)

\* 3. Update PatientDT (based on target_resource_id); re.search raises
\* TypeError unless target_resource is a str
UpdatePatientDT(h, event) ==
    LET target_resource == NestedGet(event, "action", "target_resource_id", PyStr(<<>>))
        patient_id_match == re_search(target_resource.val.s)
    IN  IF h.exc THEN h
        ELSE IF target_resource.exc THEN [h EXCEPT !.exc = TRUE]
        ELSE IF target_resource.val.k # "str" THEN [h EXCEPT !.exc = TRUE]
        ELSE IF ~patient_id_match.found THEN h
        ELSE Touch(h, "PatientDT", PyStr(patient_id_match.group), "network", event, NoneV)

\* the branch `elif event_type == 'NetworkAuthLog':`
UpdateNetwork(h, event) ==
    UpdatePatientDT(UpdateDeviceDT(UpdateNetworkDT(h, event), event), event)

\* the literals 'MedicalDeviceLog' and 'NetworkAuthLog'
MedicalDeviceLog == PyStr(<<"M", "e", "d", "i", "c", "a", "l", "D", "e", "v", "i", "c", "e", "L", "o", "g">>)

NetworkAuthLog == PyStr(<<"N", "e", "t", "w", "o", "r", "k", "A", "u", "t", "h", "L", "o", "g">>)

\* HospitalDT.update_from_event: the collections after the call and the
\* returned updated_states; an exception ends the try block where it is raised
update_from_event(hdt, event) ==
    LET event_type == DictGet(event, "eventType", NoneV).val
    IN  IF event_type = MedicalDeviceLog THEN UpdateMedical(Call(hdt), event)
        ELSE IF event_type = NetworkAuthLog THEN UpdateNetwork(Call(hdt), event)
        ELSE Call(hdt)

(***************************************************************************)
(* Reference data (the tables scripts/seed_database.py creates) and the    *)
(* DatabaseConnector (utils/db_connector.py).  What the database does on a *)
(* call is the environment's choice:                                       *)
(*   "ok"     the statement runs;                                          *)
(*   "dberr"  it raises psycopg2.DatabaseError and the rollback succeeds;  *)
(*   "exc"    it raises another exception (store_event only catches it);   *)
(*   "raise"  an exception leaves the method: one that fetch_one_as_dict   *)
(*            does not catch, or one raised by conn.rollback() inside the  *)
(*            DatabaseError handler.                                       *)
(***************************************************************************)
T1 == <<"t", "1">>
T2 == <<"t", "2">>
DEV1 == <<"D", "1">>
DEV2 == <<"D", "2">>
PAT1 == <<"P", "A", "T", "-", "1">>
PAT2 == <<"P", "A", "T", "-", "2">>
PAT3 == <<"P", "A", "T", "-", "3">>
STF9 == <<"S", "9">>
USR7 == <<"U", "7">>
USR8 == <<"U", "8">>
IP5 == <<"i", "5">>
IP9 == <<"i", "9">>

devices_table ==
    DEV1 :> [device_id |-> PyStr(DEV1), device_type |-> PyStr(<<"M">>),
             location |-> PyStr(<<"I">>), department |-> PyStr(<<"C">>),
             ip_address |-> PyStr(IP5)]

patients_table ==
    (PAT1 :> [patient_id |-> PyStr(PAT1), full_name |-> PyStr(<<"J">>),
              current_room |-> PyStr(<<"R">>), assigned_doctor_id |-> PyStr(STF9)])
    @@
    (PAT3 :> [patient_id |-> PyStr(PAT3), full_name |-> PyStr(<<"K">>),
              current_room |-> NoneV, assigned_doctor_id |-> NoneV])

staff_table ==
    (STF9 :> [user_id |-> PyStr(STF9), full_name |-> PyStr(<<"A">>),
              role |-> PyStr(<<"P">>), department |-> PyStr(<<"C">>),
              access_level |-> PyInt(3), is_on_shift |-> PyBool(TRUE)])
    @@
    (USR7 :> [user_id |-> PyStr(USR7), full_name |-> PyStr(<<"N">>),
              role |-> PyStr(<<"N">>), department |-> PyStr(<<"C">>),
              access_level |-> PyInt(1), is_on_shift |-> PyBool(FALSE)])

\* the five SELECT statements of the enricher: table, key column, columns
Queries ==
    [device_by_id  |-> [table |-> devices_table, key |-> "device_id",
                        cols |-> {"device_type", "location", "department", "ip_address"}],
     patient_by_id |-> [table |-> patients_table, key |-> "patient_id",
                        cols |-> {"full_name", "current_room", "assigned_doctor_id"}],
     doctor_by_id  |-> [table |-> staff_table, key |-> "user_id",
                        cols |-> {"full_name", "role", "is_on_shift"}],
     user_by_id    |-> [table |-> staff_table, key |-> "user_id",
                        cols |-> {"full_name", "role", "department", "access_level",
                                  "is_on_shift"}],
     device_by_ip  |-> [table |-> devices_table, key |-> "ip_address",
                        cols |-> {"device_id", "device_type", "location"}]]

\* cur.execute(query, params); cur.fetchone()
fetchone(query, param) ==
    LET q == Queries[query]
        hits == {r \in DOMAIN q.table : q.table[r][q.key] = param}
    IN  IF hits = {} THEN NoneV
        ELSE LET r == CHOOSE x \in hits : TRUE
             IN  PyDict([c \in q.cols |-> q.table[r][c]])

\* DatabaseConnector.fetch_one_as_dict
fetch_one_as_dict(query, param, outcome) ==
    CASE outcome = "ok"    -> Ok(fetchone(query, param))
      [] outcome = "dberr" -> Ok(NoneV)
      [] OTHER             -> Raise

\* DatabaseConnector.store_event: True, False, or an exception out of the
\* rollback in the DatabaseError handler
store_event(event_data, outcome) ==
    CASE outcome = "ok"    -> Ok(PyBool(TRUE))
      [] outcome = "dberr" -> Ok(PyBool(FALSE))
      [] outcome = "exc"   -> Ok(PyBool(FALSE))
      [] OTHER             -> Raise

(***************************************************************************)
(* The enricher (processor/enricher.py).  A call returns the enriched      *)
(* event or None, or lets an exception of a lookup through (exc); queries  *)
(* lists the lookups it issued, in order.                                  *)
(***************************************************************************)
Returned(event, queries) == [exc |-> FALSE, ret |-> event, queries |-> queries]

Escaped(queries) == [exc |-> TRUE, ret |-> NoneV, queries |-> queries]

\* event[section].update(info)
UpdateSection(event, section, info) ==
    PyDict([event.d EXCEPT ![section] = DictUpdate(@, info)])

\* event[section][key] = value
SetInSection(event, section, key, value) ==
    PyDict([event.d EXCEPT ![section] = DictSet(@, key, value)])

\* if info: event[section] = info, the record in place of the section
OverlayReplacing(event, section, info) ==
    IF Truthy(info) THEN PyDict([event.d EXCEPT ![section] = info]) ELSE event

\* info = fetch_one_as_dict(...); if info: event[section].update(info)
Overlay(event, section, info) ==
    IF Truthy(info) THEN UpdateSection(event, section, info) ELSE event

\* event[section][key] = info without the `if info:` test
AttachAlways(event, section, key, info) == SetInSection(event, section, key, info)

\* info = fetch_one_as_dict(...); if info: event[section][key] = info
Attach(event, section, key, info) ==
    IF Truthy(info) THEN SetInSection(event, section, key, info) ELSE event

\* the doctor lookup made whatever assigned_doctor_id holds
EnrichDoctorAlways(event, patient_info, plan) ==
    LET doctor_info == fetch_one_as_dict("doctor_by_id",
                                         patient_info.d["assigned_doctor_id"],
                                         plan["doctor_by_id"])
    IN  IF doctor_info.exc
        THEN Escaped(<<"device_by_id", "patient_by_id", "doctor_by_id">>)
        ELSE Returned(Attach(event, "patient", "assigned_doctor_details", doctor_info.val),
                      <<"device_by_id", "patient_by_id", "doctor_by_id">>)

\* `if patient_info.get('assigned_doctor_id'):` and the lookup under it
EnrichDoctor(event, patient_info, plan) ==
    LET doctor_info == fetch_one_as_dict("doctor_by_id",
                                         patient_info.d["assigned_doctor_id"],
                                         plan["doctor_by_id"])
    IN  IF ~Truthy(DictGet(patient_info, "assigned_doctor_id", NoneV).val)
        THEN Returned(event, <<"device_by_id", "patient_by_id">>)
        ELSE IF doctor_info.exc
             THEN Escaped(<<"device_by_id", "patient_by_id", "doctor_by_id">>)
        ELSE Returned(Attach(event, "patient", "assigned_doctor_details", doctor_info.val),
                      <<"device_by_id", "patient_by_id", "doctor_by_id">>)

\* the patient lookup and what follows it
EnrichPatient(event, plan) ==
    LET patient_info == fetch_one_as_dict("patient_by_id", event.d["patient"].d["id"],
                                          plan["patient_by_id"])
    IN  IF patient_info.exc THEN Escaped(<<"device_by_id", "patient_by_id">>)
        ELSE IF ~Truthy(patient_info.val)
             THEN Returned(event, <<"device_by_id", "patient_by_id">>)
        ELSE EnrichDoctor(UpdateSection(event, "patient", patient_info.val),
                          patient_info.val, plan)

\* 3. Enrich the data by querying the database
EnrichDevice(base_event, plan) ==
    LET device_info == fetch_one_as_dict("device_by_id", base_event.d["device"].d["id"],
                                         plan["device_by_id"])
    IN  IF device_info.exc THEN Escaped(<<"device_by_id">>)
        ELSE EnrichPatient(Overlay(base_event, "device", device_info.val), plan)

\* a field count check that lets a payload with fields in excess through
FieldCountAtLeast(parts) == Len(parts) >= 6

\* `if len(parts) != 6:` fails
FieldCountOk(parts) == Len(parts) = 6

process_device_message(payload, plan) ==
    LET parts == split(payload)
        heart_rate == int(parts[4])
        spo2 == int(parts[5])
        base_event ==
            PyDict([eventType   |-> MedicalDeviceLog,
                    timestamp   |-> PyStr(parts[1]),
                    raw_payload |-> PyStr(payload),
                    device      |-> PyDict([id      |-> PyStr(parts[2]),
                                            status  |-> PyStr(parts[6]),
                                            metrics |-> PyDict(
                                                [heart_rate_bpm |-> heart_rate.val,
                                                 spo2_percent   |-> spo2.val])]),
                    patient     |-> PyDict([id |-> PyStr(parts[3])])])
    IN  IF ~FieldCountOk(parts) THEN Returned(NoneV, <<>>)
        ELSE IF heart_rate.exc \/ spo2.exc THEN Returned(NoneV, <<>>)
        ELSE EnrichDevice(base_event, plan)

\* 3. Enrich the data by querying the database
EnrichNetwork(base_event, plan) ==
    LET user_info == fetch_one_as_dict("user_by_id", base_event.d["user"].d["id"],
                                       plan["user_by_id"])
        device_info == fetch_one_as_dict("device_by_ip",
                                         base_event.d["network"].d["source_ip"],
                                         plan["device_by_ip"])
    IN  IF user_info.exc THEN Escaped(<<"user_by_id">>)
        ELSE IF device_info.exc THEN Escaped(<<"user_by_id", "device_by_ip">>)
        ELSE Returned(Attach(Overlay(base_event, "user", user_info.val),
                             "network", "source_device_details", device_info.val),
                      <<"user_by_id", "device_by_ip">>)

process_network_message(payload, plan) ==
    LET parts == split(payload)
        base_event ==
            PyDict([eventType   |-> NetworkAuthLog,
                    timestamp   |-> PyStr(parts[1]),
                    raw_payload |-> PyStr(payload),
                    network     |-> PyDict([source_ip  |-> PyStr(parts[4]),
                                            log_source |-> PyStr(parts[2])]),
                    action      |-> PyDict([type |-> PyStr(parts[5]),
                                            target_resource_id |-> PyStr(parts[6])]),
                    user        |-> PyDict([id |-> PyStr(parts[3])])])
    IN  IF ~FieldCountOk(parts) THEN Returned(NoneV, <<>>)
        ELSE EnrichNetwork(base_event, plan)

(***************************************************************************)
(* The consumer (processor/main.py).  on_message returns what the callback *)
(* did: the steps it ran, in order, what they returned, the collections    *)
(* after it, and whether an exception left the callback (escaped).         *)
(***************************************************************************)
device_topic == "hospital/devices"

network_topic == "hospital/network"

Outcome(hdt, escaped, enriched, steps, storage_success, updated_states, raised) ==
    [escaped |-> escaped, event |-> enriched.ret, queries |-> enriched.queries,
     steps |-> steps, storage_success |-> storage_success,
     updated_states |-> updated_states, raised |-> raised,
     patients |-> hdt.patients, devices |-> hdt.devices, networks |-> hdt.networks]

\* the callback ends before Layer 3, by an exception (escaped) or without event
Skipped(hdt, escaped, enriched, steps) ==
    Outcome(hdt, escaped, enriched, steps, NoneV, <<>>, FALSE)

\* the enrichment taking every topic but the network topic for the device topic
Layer2_AnyTopic(topic, payload, plan) ==
    IF topic = network_topic THEN process_network_message(payload, plan)
    ELSE process_device_message(payload, plan)

\* --- LAYER 2: ENRICHMENT ---
Layer2(topic, payload, plan) ==
    IF topic = device_topic THEN process_device_message(payload, plan)
    ELSE IF topic = network_topic THEN process_network_message(payload, plan)
    ELSE Returned(NoneV, <<>>)

\* 2. Living Profile (Update in-memory DTs); updated is what
\* update_from_event made of the manager and returned
LivingProfile(enriched, steps, storage_success, updated) ==
    Outcome(updated, FALSE, enriched, Append(steps, "update"), storage_success,
            updated.updated_states, updated.exc)

\* Layer 3 updating the twins only if the event was stored
Layer3_IfStored(hdt, enriched, steps, storage) ==
    IF storage.exc THEN Skipped(hdt, TRUE, enriched, Append(steps, "store"))
    ELSE IF ~storage.val.b
         THEN Outcome(hdt, FALSE, enriched, Append(steps, "store"), storage.val,
                      <<>>, FALSE)
    ELSE LivingProfile(enriched, Append(steps, "store"), storage.val,
                       update_from_event(hdt, enriched.ret))

\* Layer 3 updating the twins before it stores the event
Layer3_UpdateFirst(hdt, enriched, steps, storage) ==
    IF storage.exc THEN Skipped(hdt, TRUE, enriched, steps \o <<"update", "store">>)
    ELSE [LivingProfile(enriched, steps, storage.val,
                        update_from_event(hdt, enriched.ret))
             EXCEPT !.steps = Append(@, "store")]

\* --- LAYER 3: INFORMATION ---; storage is what store_event returned or raised
Layer3(hdt, enriched, steps, storage) ==
    IF storage.exc THEN Skipped(hdt, TRUE, enriched, Append(steps, "store"))
    ELSE LivingProfile(enriched, Append(steps, "store"), storage.val,
                       update_from_event(hdt, enriched.ret))

\* the callback from the enrichment on; enriched is what Layer 2 returned
Continue(hdt, enriched, steps, plan) ==
    IF enriched.exc THEN Skipped(hdt, TRUE, enriched, steps)
    ELSE IF ~Truthy(enriched.ret) THEN Skipped(hdt, FALSE, enriched, steps)
    ELSE Layer3(hdt, enriched, steps, store_event(enriched.ret, plan["store"]))

\* the steps run once the payload is decoded
Layer2Steps(topic) ==
    IF topic \in {device_topic, network_topic} THEN <<"enrich">> ELSE <<>>

on_message(hdt, msg, plan) ==
    LET payload == decode(msg.payload)
    IN  IF payload.exc THEN Skipped(hdt, TRUE, Returned(NoneV, <<>>), <<>>)
        ELSE Continue(hdt, Layer2(msg.topic, payload.val, plan),
                      Layer2Steps(msg.topic), plan)

(***************************************************************************)
(* The messages the broker delivers: rows joined with ',' as the           *)
(* simulators publish them (scripts/network_simulator.py), rows with a     *)
(* field missing or in excess, a payload that is not UTF-8, and a device    *)
(* row published on a topic the service has no enricher for.               *)
(***************************************************************************)
RECURSIVE join(_)
\* ','.join(row)
join(row) ==
    IF Len(row) = 0 THEN <<>>
    ELSE IF Len(row) = 1 THEN row[1]
    ELSE row[1] \o <<",">> \o join(Tail(row))

\* timestamp, device_id, patient_id, heart_rate_bpm, spo2_percent, status
DeviceRows ==
    {<<T1, DEV1, PAT1, <<"8", "8">>, <<"9", "7">>, <<"O", "K">>>>,
     <<T2, DEV1, PAT1, <<"9", "0">>, <<"9", "5">>, <<>>>>,
     <<T2, DEV1, <<>>, <<"8", "8">>, <<"9", "7">>, <<"O", "K">>>>,
     <<T1, <<>>, PAT1, <<"8", "8">>, <<"9", "7">>, <<"O", "K">>>>,
     <<T1, DEV2, PAT2, <<" ", "7">>, <<"-", "0">>, <<"L", "O">>>>,
     <<T2, DEV2, PAT3, <<"7", "0">>, <<"9", "9">>, <<"O", "K">>>>,
     <<T1, DEV1, PAT1, <<"x">>, <<"9", "7">>, <<"O", "K">>>>,
     <<T1, DEV1, PAT1, <<"8", "8">>, <<>>, <<"O", "K">>>>,
     <<T1, DEV1, PAT1, <<"8", "8">>, <<"9", "7">>>>,
     <<T1, DEV1, PAT1, <<"8", "8">>, <<"9", "7">>, <<"O", "K">>, <<"x">>>>}

\* timestamp, log_source, user_id, source_ip, action_type, target_resource_id
NetworkRows ==
    {<<T1, <<"V">>, USR7, IP5, <<"L">>, PAT1 \o <<"/", "c">>>>,
     <<T2, <<"F">>, USR8, <<>>, <<"R">>, <<"P", "A", "T", "-">>>>,
     <<T2, <<"V">>, USR7, IP9, <<"L">>, <<"x">> \o PAT1 \o <<"2">> \o PAT2>>,
     <<T2, <<"F">>, USR7, <<>>, <<"R">>, PAT2>>,
     <<T1, <<"V">>, USR7, IP5, <<"L">>>>,
     <<T1, <<"V">>, USR7, IP5, <<"L">>, PAT1, <<"x">>>>}

Messages ==
    {[topic |-> device_topic, payload |-> join(row)] : row \in DeviceRows}
    \cup {[topic |-> network_topic, payload |-> join(row)] : row \in NetworkRows}
    \cup {[topic |-> device_topic, payload |-> <<"t", BadByte>>],
          [topic |-> "hospital/other",
           payload |-> join(<<T1, DEV1, PAT1, <<"8", "8">>, <<"9", "7">>, <<"O", "K">>>>)]}

Calls == {"device_by_id", "patient_by_id", "doctor_by_id", "user_by_id",
          "device_by_ip", "store"}

\* the place of each call in its handler: the lookups of process_device_message
\* or of process_network_message in order, then store_event
CallOrder ==
    [device_by_id |-> 1, patient_by_id |-> 2, doctor_by_id |-> 3,
     user_by_id |-> 1, device_by_ip |-> 2, store |-> 4]

FetchOutcomes == {"ok", "dberr", "raise"}

StoreOutcomes == {"ok", "dberr", "exc", "raise"}

\* what the database does on each call of one message: at most MaxFaults
\* calls fail, only calls the topic's handler can make, and none after a call
\* whose exception left the handler
PlansOver(calls) ==
    {p \in [Calls -> StoreOutcomes] :
        /\ \A c \in Calls \ calls : p[c] = "ok"
        /\ \A c \in calls \ {"store"} : p[c] \in FetchOutcomes
        /\ Cardinality({c \in Calls : p[c] # "ok"}) <= MaxFaults
        /\ \A c, later \in calls :
               (p[c] = "raise" /\ CallOrder[c] < CallOrder[later]) => p[later] = "ok"}

DevicePlans == PlansOver({"device_by_id", "patient_by_id", "doctor_by_id", "store"})

NetworkPlans == PlansOver({"user_by_id", "device_by_ip", "store"})

PlansFor(topic) ==
    IF topic = device_topic THEN DevicePlans
    ELSE IF topic = network_topic THEN NetworkPlans
    ELSE PlansOver({})

\* the calls a callback made, in order
CallsMade(r) ==
    r.queries \o (IF \E i \in 1..Len(r.steps) : r.steps[i] = "store"
                  THEN <<"store">> ELSE <<>>)

(***************************************************************************)
(* State: the manager's three collections; running, the consumer loop of   *)
(* main() being alive; msgs, the messages delivered; log, the steps run so *)
(* far, each with the number of its message; prev, the collections before  *)
(* the last message; last, what the last callback was given and did;       *)
(* held, the list update_from_event returned to the call before the last,  *)
(* kept by its caller; recent, for each patient_id the payload of the      *)
(* latest device message applied to the twins and for each source_ip the   *)
(* payload of the latest network message applied.                          *)
(***************************************************************************)
Init ==
    /\ patients = HospitalDT.patients
    /\ devices = HospitalDT.devices
    /\ networks = HospitalDT.networks
    /\ running = TRUE
    /\ msgs = 0
    /\ log = <<>>
    /\ prev = HospitalDT
    /\ last = [topic |-> "", payload |-> <<>>, escaped |-> FALSE, event |-> NoneV,
               queries |-> <<>>, outcomes |-> <<>>, steps |-> <<>>,
               storage_success |-> NoneV, updated_states |-> <<>>, raised |-> FALSE]
    /\ held = <<>>
    /\ recent = [medical |-> EmptyMap, network |-> EmptyMap]

\* recent once the callback that did the steps has returned
Remember(msg, steps) ==
    IF ~(\E i \in 1..Len(steps) : steps[i] = "update") THEN recent
    ELSE IF msg.topic = device_topic /\ split(msg.payload)[3] # <<>>
         THEN [recent EXCEPT !.medical = (split(msg.payload)[3] :> msg.payload) @@ @]
    ELSE IF msg.topic = network_topic /\ split(msg.payload)[4] # <<>>
         THEN [recent EXCEPT !.network = (split(msg.payload)[4] :> msg.payload) @@ @]
    ELSE recent

\* the state after a callback that did r on the collections hdt
Delivered(msg, plan, hdt, r, made) ==
    /\ patients' = r.patients
    /\ devices' = r.devices
    /\ networks' = r.networks
    /\ running' = ~r.escaped
    /\ msgs' = msgs + 1
    /\ log' = log \o [i \in 1..Len(r.steps) |-> [msg |-> msgs + 1, step |-> r.steps[i]]]
    /\ prev' = hdt
    /\ last' = [topic |-> msg.topic, payload |-> msg.payload,
                escaped |-> r.escaped, event |-> r.event, queries |-> r.queries,
                outcomes |-> [i \in 1..Len(made) |-> plan[made[i]]],
                steps |-> r.steps, storage_success |-> r.storage_success,
                updated_states |-> r.updated_states, raised |-> r.raised]
    /\ held' = last.updated_states
    /\ recent' = Remember(msg, r.steps)

\* the callback's result with the calls it made
Observed(msg, plan, hdt, r) == Delivered(msg, plan, hdt, r, CallsMade(r))

\* client.loop_forever() delivers one message to on_message; an exception
\* that leaves the callback ends the loop (main's except/finally)
OnMessage(msg, plan) ==
    /\ running
    /\ msgs < MaxMsgs
    /\ Observed(msg, plan,
                [patients |-> patients, devices |-> devices, networks |-> networks],
                on_message([patients |-> patients, devices |-> devices,
                            networks |-> networks], msg, plan))

\* the message gets as far as the lookups: it decodes, its topic has an
\* enricher and the enricher builds base_event from it
ReachesLookups(msg) ==
    /\ msg.topic \in {device_topic, network_topic}
    /\ ~decode(msg.payload).exc
    /\ FieldCountOk(split(msg.payload))
    /\ msg.topic = device_topic =>
           ~int(split(msg.payload)[4]).exc /\ ~int(split(msg.payload)[5]).exc

\* what the database may do for a message: nothing is asked of it, and so
\* nothing can fail, when the message does not reach the lookups
PlansOf(msg) == IF ReachesLookups(msg) THEN PlansFor(msg.topic) ELSE PlansOver({})

Next == \E msg \in Messages : \E plan \in PlansOf(msg) : OnMessage(msg, plan)

Spec == Init /\ [][Next]_vars

(***************************************************************************)
(* The manager called on its own: update_from_event applied to events of   *)
(* any structure, those the enricher builds and events with keys missing,  *)
(* null values or a value of the wrong type.                               *)
(***************************************************************************)
NoFault == [c \in Calls |-> "ok"]

\* events as the enricher returns them
EnrichedEvents ==
    {process_device_message(
         join(<<T1, DEV1, PAT1, <<"8", "8">>, <<"9", "7">>, <<"O", "K">>>>), NoFault).ret,
     process_device_message(
         join(<<T2, DEV1, PAT2, <<"9", "0">>, <<"9", "5">>, <<>>>>), NoFault).ret,
     process_device_message(
         join(<<T2, DEV1, <<>>, <<"8", "8">>, <<"9", "7">>, <<"O", "K">>>>), NoFault).ret,
     process_network_message(
         join(<<T1, <<"V">>, USR7, IP5, <<"L">>, PAT1 \o <<"/", "c">>>>), NoFault).ret,
     process_network_message(
         join(<<T2, <<"F">>, USR8, IP9, <<"R">>, <<"c">>>>), NoFault).ret}

\* events of another structure
OtherEvents ==
    {\* the metrics are null
     PyDict([eventType |-> MedicalDeviceLog, timestamp |-> PyStr(T2),
             patient |-> PyDict([id |-> PyStr(PAT1)]),
             device |-> PyDict([id |-> PyStr(DEV1), metrics |-> NoneV])]),
     \* the patient section is null
     PyDict([eventType |-> MedicalDeviceLog, timestamp |-> PyStr(T2),
             patient |-> NoneV,
             device |-> PyDict([id |-> PyStr(DEV1), status |-> PyStr(<<"O", "K">>)])]),
     \* no timestamp, no device section
     PyDict([eventType |-> MedicalDeviceLog,
             patient |-> PyDict([id |-> PyStr(PAT1), full_name |-> NoneV])]),
     \* only the device's id and status
     PyDict([eventType |-> MedicalDeviceLog, timestamp |-> PyStr(T2),
             device |-> PyDict([id |-> PyStr(DEV1), status |-> PyStr(<<"L", "O">>)])]),
     \* the action section is null
     PyDict([eventType |-> NetworkAuthLog, timestamp |-> PyStr(T2),
             network |-> PyDict([source_ip |-> PyStr(IP5), log_source |-> PyStr(<<"V">>)]),
             action |-> NoneV,
             user |-> PyDict([id |-> PyStr(USR7)])]),
     \* the target resource is null
     PyDict([eventType |-> NetworkAuthLog, timestamp |-> PyStr(T2),
             network |-> PyDict([source_ip |-> PyStr(IP5), log_source |-> PyStr(<<"V">>),
                                 source_device_details |->
                                     PyDict([device_id |-> PyStr(DEV1)])]),
             action |-> PyDict([type |-> PyStr(<<"L">>), target_resource_id |-> NoneV]),
             user |-> PyDict([id |-> PyStr(USR8)])]),
     \* the source device details are a string
     PyDict([eventType |-> NetworkAuthLog, timestamp |-> PyStr(T1),
             network |-> PyDict([source_ip |-> PyStr(IP9),
                                 source_device_details |-> PyStr(DEV1)]),
             action |-> PyDict([type |-> PyStr(<<"R">>),
                                target_resource_id |-> PyStr(PAT2)])]),
     \* no network section
     PyDict([eventType |-> NetworkAuthLog, timestamp |-> PyStr(T1),
             action |-> PyDict([type |-> PyStr(<<"R">>),
                                target_resource_id |-> PyStr(PAT1)]),
             user |-> PyDict([id |-> PyStr(<<>>)])]),
     \* another event type, and none
     PyDict([eventType |-> PyStr(<<"O">>), timestamp |-> PyStr(T1),
             patient |-> PyDict([id |-> PyStr(PAT1)])]),
     PyDict([timestamp |-> PyStr(T1)])}

AggEvents == EnrichedEvents \cup OtherEvents

\* hospital_dt_manager.update_from_event(event), called directly
UpdateFromEvent(event) ==
    /\ msgs < MaxMsgs
    /\ Observed([topic |-> "", payload |-> <<>>], NoFault,
                [patients |-> patients, devices |-> devices, networks |-> networks],
                LivingProfile(Returned(event, <<>>), <<>>, NoneV,
                              update_from_event([patients |-> patients,
                                                 devices |-> devices,
                                                 networks |-> networks], event)))

NextAgg == \E event \in AggEvents : UpdateFromEvent(event)

SpecAgg == Init /\ [][NextAgg]_vars

(***************************************************************************)
(* The service and a direct caller of the manager together: while the      *)
(* consumer loop is alive a message is delivered or update_from_event is   *)
(* called with an event of any structure.                                  *)
(***************************************************************************)
NextAll == Next \/ (running /\ NextAgg)

SpecAll == Init /\ [][NextAll]_vars

(***************************************************************************)
(* Vocabulary of the properties.                                           *)
(***************************************************************************)
Kinds == {"PatientDT", "DeviceDT", "NetworkDT"}

\* the three collections now
Colls == [patients |-> patients, devices |-> devices, networks |-> networks]

\* the twin of kind dt and key `key` before the last event: as stored, or as
\* its constructor leaves it if the event created it
Before(dt, key) ==
    IF key \in DOMAIN prev[Coll(dt)] THEN prev[Coll(dt)][key] ELSE New(dt, key)

\* the last callback ran the step
Ran(step) == \E i \in 1..Len(last.steps) : last.steps[i] = step

\* the number of times the last callback ran the step
Times(step) == Cardinality({i \in 1..Len(last.steps) : last.steps[i] = step})

\* a value that is neither null nor the empty string
NonEmpty(v) == v.k # "none" /\ ~(v.k = "str" /\ v.s = <<>>)

RECURSIVE At(_, _)
\* the value an event holds at a path of keys, None if it holds none
At(v, path) ==
    IF path = <<>> THEN v
    ELSE IF v.k = "dict" /\ Head(path) \in DOMAIN v.d THEN At(v.d[Head(path)], Tail(path))
    ELSE NoneV

\* the merge rules as field maps: where an event of the given type holds the
\* value for a twin's field (<<"-">>: nowhere)
SourcePath(dt, eventType, field) ==
    CASE dt = "PatientDT" /\ eventType = MedicalDeviceLog ->
           (CASE field = "last_metric_update" -> <<"timestamp">>
              [] field = "full_name" -> <<"patient", "full_name">>
              [] field = "current_room" -> <<"patient", "current_room">>
              [] field = "last_heart_rate" -> <<"device", "metrics", "heart_rate_bpm">>
              [] field = "last_spo2" -> <<"device", "metrics", "spo2_percent">>
              [] field = "last_device_status" -> <<"device", "status">>
              [] OTHER -> <<"-">>)
      [] dt = "PatientDT" /\ eventType = NetworkAuthLog ->
           (CASE field = "last_access_time" -> <<"timestamp">>
              [] field = "last_accessed_by_user_id" -> <<"user", "id">>
              [] field = "last_access_action" -> <<"action", "type">>
              [] OTHER -> <<"-">>)
      [] dt = "DeviceDT" /\ eventType = MedicalDeviceLog ->
           (CASE field = "last_metric_update" -> <<"timestamp">>
              [] field = "current_patient_id" -> <<"patient", "id">>
              [] field \in {"device_type", "location", "department", "ip_address",
                            "status"} -> <<"device", field>>
              [] OTHER -> <<"-">>)
      [] dt = "DeviceDT" /\ eventType = NetworkAuthLog ->
           (CASE field = "last_network_update" -> <<"timestamp">>
              [] field = "last_user_id" -> <<"user", "id">>
              [] field = "last_action_from_device" -> <<"action", "type">>
              [] field \in {"device_type", "location"} ->
                     <<"network", "source_device_details", field>>
              [] OTHER -> <<"-">>)
      [] dt = "NetworkDT" /\ eventType = NetworkAuthLog ->
           (CASE field = "last_update" -> <<"timestamp">>
              [] field = "last_user_id" -> <<"user", "id">>
              [] field = "last_action" -> <<"action", "type">>
              [] field = "last_target_resource" -> <<"action", "target_resource_id">>
              [] field = "last_log_source" -> <<"network", "log_source">>
              [] field = "last_device_id" ->
                     <<"network", "source_device_details", "device_id">>
              [] OTHER -> <<"-">>)
      [] OTHER -> <<"-">>

\* the number of ',' in a payload
CommaCount(payload) == Cardinality({i \in 1..Len(payload) : payload[i] = ","})

\* a payload that is UTF-8
Decodable(payload) == \A i \in 1..Len(payload) : payload[i] # BadByte

(***************************************************************************)
(* C1.  Merge by presence: a field of a twin differs after an event        *)
(* applied by update_from_event from its value before only if the event    *)
(* supplies a non-empty value for that field; with no value or an empty    *)
(* one (missing key, empty string, null) the prior value is retained.      *)
(* The code assigns whatever the event holds under the key, empty or not.  *)
(* (current_patient_id, which the routing rule sets to the event's         *)
(* patient_id whatever it is, is left out here.)                           *)
(***************************************************************************)
C1_MergeByPresence ==
    Ran("update") =>
        \A dt \in Kinds : \A key \in DOMAIN Colls[Coll(dt)] :
            \A field \in DOMAIN Colls[Coll(dt)][key] \ {"current_patient_id"} :
                Colls[Coll(dt)][key][field] # Before(dt, key)[field]
                    => NonEmpty(At(last.event,
                                   SourcePath(dt, At(last.event, <<"eventType">>), field)))

(***************************************************************************)
(* C2.  Field-count violation: on either topic a payload that does not     *)
(* split on ',' into exactly 6 fields yields no event, no lookup, no       *)
(* store_event call, and leaves the three collections unchanged.           *)
(***************************************************************************)
C2_FieldCountViolation ==
    (/\ last.topic \in {device_topic, network_topic}
     /\ Decodable(last.payload)
     /\ CommaCount(last.payload) # 5)
        => /\ last.event = NoneV
           /\ ~last.escaped
           /\ last.queries = <<>>
           /\ ~Ran("store")
           /\ ~Ran("update")
           /\ Colls = prev

\* a network payload of 7 fields arrives when twins exist
C2_Witness ==
    /\ last.topic = network_topic
    /\ CommaCount(last.payload) = 6
    /\ last.event = NoneV
    /\ DOMAIN patients # {}
    /\ DOMAIN devices # {}

(***************************************************************************)
(* C3.  Aggregation fault: if an exception is raised inside                *)
(* update_from_event, the call returns an empty list and the three         *)
(* collections are as before the call.  The code keeps what was inserted   *)
(* and assigned before the exception, and the entries already appended.    *)
(***************************************************************************)
C3_FaultUpdatesNothing ==
    last.raised => (last.updated_states = <<>> /\ Colls = prev)

(***************************************************************************)
(* More vocabulary: the fields of the last payload and what they hold.     *)
(***************************************************************************)
\* the n-th comma-separated field of the last payload
Field(n) == split(last.payload)[n]

\* text that Python's int() accepts: blanks around an optionally signed run
\* of digits, in which single underscores may separate digits
IntegerText(s) ==
    \E a, b \in 1..Len(s) :
        /\ a <= b
        /\ s[a] \in Digits /\ s[b] \in Digits
        /\ \A i \in a..b : s[i] \in Digits \cup {"_"}
        /\ \A i \in a..(b - 1) : ~(s[i] = "_" /\ s[i + 1] = "_")
        /\ \A i \in (b + 1)..Len(s) : s[i] = " "
        /\ \/ \A i \in 1..(a - 1) : s[i] = " "
           \/ /\ s[a - 1] \in {"+", "-"}
              /\ \A i \in 1..(a - 2) : s[i] = " "

\* the last message is a payload of 6 fields on the device topic
SixFieldDevice ==
    last.topic = device_topic /\ Decodable(last.payload) /\ CommaCount(last.payload) = 5

\* ... with integer heart_rate_bpm and spo2_percent
WellFormedDevice == SixFieldDevice /\ IntegerText(Field(4)) /\ IntegerText(Field(5))

\* the last message is a payload of 6 fields on the network topic
WellFormedNetwork ==
    last.topic = network_topic /\ Decodable(last.payload) /\ CommaCount(last.payload) = 5

\* the entries of kind dt in the list update_from_event returned
Entries(dt) ==
    {i \in 1..Len(last.updated_states) : last.updated_states[i].dt = dt}

\* the returned list has exactly one entry of kind dt, for the twin keyed id,
\* and the collection holds that twin under its key
OneEntry(dt, id) ==
    /\ Cardinality(Entries(dt)) = 1
    /\ \A i \in Entries(dt) : last.updated_states[i].key = PyStr(id)
    /\ PyStr(id) \in DOMAIN Colls[Coll(dt)]

\* an identifier PAT-<digits>
IsPatientId(s) ==
    /\ Len(s) >= 5
    /\ SubSeq(s, 1, 4) = <<"P", "A", "T", "-">>
    /\ \A i \in 5..Len(s) : s[i] \in Digits

\* t contains a substring PAT-<digits>
ContainsPatientId(t) ==
    \E i, j \in 1..Len(t) : i <= j /\ IsPatientId(SubSeq(t, i, j))

\* id is the first identifier PAT-<digits> in t, with all its digits
FirstPatientId(t, id) ==
    \E i \in 1..Len(t) :
        /\ i + Len(id) - 1 <= Len(t)
        /\ SubSeq(t, i, i + Len(id) - 1) = id
        /\ IsPatientId(id)
        /\ (i + Len(id) - 1 = Len(t) \/ t[i + Len(id)] \notin Digits)
        /\ ~\E i2 \in 1..(i - 1) : \E j2 \in i2..Len(t) : IsPatientId(SubSeq(t, i2, j2))

C5_PatientCorrelation ==
    (WellFormedNetwork /\ Ran("update")) =>
        IF ContainsPatientId(Field(6))
        THEN \E key \in DOMAIN patients :
                /\ key.k = "str"
                /\ FirstPatientId(Field(6), key.s)
                /\ OneEntry("PatientDT", key.s)
                /\ patients[key].patient_id = key
                /\ patients[key].last_access_time = PyStr(Field(1))
                /\ DOMAIN patients = DOMAIN prev.patients \cup {key}
                /\ \A other \in DOMAIN prev.patients \ {key} :
                       patients[other] = prev.patients[other]
        ELSE Entries("PatientDT") = {} /\ patients = prev.patients

\* an identifier inside the target, no source_ip, no device: one new PatientDT
C5_Witness ==
    /\ WellFormedNetwork
    /\ Ran("update")
    /\ Field(4) = <<>>
    /\ last.updated_states = <<[dt |-> "PatientDT", key |-> PyStr(PAT2)]>>
    /\ PyStr(PAT2) \notin DOMAIN prev.patients

(***************************************************************************)
(* C6.  Lookup failure is handled like a lookup miss: when a lookup of     *)
(* a well-formed payload faults, the other lookups are still made, an      *)
(* enriched event is returned and it is passed to store_event and          *)
(* update_from_event.  The code lets every exception of a lookup other     *)
(* than a DatabaseError with a successful rollback leave the callback.     *)
(***************************************************************************)
C6_LookupFailureIsMiss ==
    (\E i \in 1..Len(last.queries) : last.outcomes[i] # "ok") =>
        /\ Len(last.queries) >= 2
        /\ Truthy(last.event)
        /\ Ran("store")
        /\ (~last.escaped => Ran("update"))

(***************************************************************************)
(* C7.  No core error is fatal: on_message returns normally for every      *)
(* message and every combination of failures, so the consumer goes on to   *)
(* the next message.  The code lets an undecodable payload, an uncaught    *)
(* lookup exception and a failed rollback leave the callback.              *)
(***************************************************************************)
C7_NoErrorIsFatal == ~last.escaped /\ running

\* the collections and the returned list are those of result u of update_from_event
SameAggregate(u) ==
    /\ patients = u.patients
    /\ devices = u.devices
    /\ networks = u.networks
    /\ last.updated_states = u.updated_states
    /\ last.raised = u.exc

(***************************************************************************)
(* C8.  Sink failure does not block the aggregate update: whenever         *)
(* process_*_message returned an event and store_event returned, True or   *)
(* False, update_from_event is called exactly once with that event, and    *)
(* the resulting aggregate state is the one the event gives from the       *)
(* previous state, the same in both cases.                                 *)
(***************************************************************************)
C8_SinkFailureDoesNotBlock ==
    (Truthy(last.event) /\ last.storage_success \in {PyBool(TRUE), PyBool(FALSE)}) =>
        /\ Times("update") = 1
        /\ SameAggregate(update_from_event(prev, last.event))

\* store_event returned False and the twins were updated all the same
C8_Witness ==
    /\ Truthy(last.event)
    /\ last.storage_success = PyBool(FALSE)
    /\ Times("update") = 1
    /\ last.updated_states # <<>>
    /\ Colls # prev

(***************************************************************************)
(* C9.  Non-numeric metric: a device payload of 6 fields whose             *)
(* heart_rate_bpm or spo2_percent does not parse as an integer yields no   *)
(* event; no lookup is made, store_event and update_from_event are not     *)
(* called, no twin is created or changed, and the callback returns.        *)
(***************************************************************************)
C9_NonNumericMetric ==
    (SixFieldDevice /\ (~IntegerText(Field(4)) \/ ~IntegerText(Field(5)))) =>
        /\ last.event = NoneV
        /\ ~last.escaped
        /\ last.queries = <<>>
        /\ ~Ran("store")
        /\ ~Ran("update")
        /\ Colls = prev

\* a non-numeric heart rate arrived after twins had been created
C9_Witness ==
    /\ SixFieldDevice
    /\ ~IntegerText(Field(4))
    /\ Field(2) # <<>> /\ Field(3) # <<>>
    /\ last.event = NoneV
    /\ DOMAIN patients # {}
    /\ DOMAIN devices # {}

(***************************************************************************)
(* C10.  Per-message step ordering: the steps of one message run as        *)
(* enrich, then store, then update, a message starts at enrich, a store    *)
(* that returns is followed by the update of the same message, and no      *)
(* step of a later message comes before a step of an earlier one.          *)
(***************************************************************************)
C10_StepOrder ==
    /\ \A i, j \in 1..Len(log) : i < j => log[i].msg <= log[j].msg
    /\ \A i \in 1..Len(log) :
          (i = 1 \/ log[i - 1].msg # log[i].msg) => log[i].step = "enrich"
    /\ \A i \in 1..(Len(log) - 1) :
          /\ log[i].msg = log[i + 1].msg =>
                <<log[i].step, log[i + 1].step>> \in
                    {<<"enrich", "store">>, <<"store", "update">>}
          /\ log[i].step = "store" =>
                log[i + 1] = [msg |-> log[i].msg, step |-> "update"]
    /\ (Ran("store") /\ ~last.escaped) => Ran("update")

\* two messages in a row went through all three steps
C10_Witness ==
    /\ msgs = 2
    /\ Len(log) = 6
    /\ log[3] = [msg |-> 1, step |-> "update"]
    /\ log[4] = [msg |-> 2, step |-> "enrich"]

(***************************************************************************)
(* More vocabulary: the canonical event of a payload and the lookups of    *)
(* the last message.                                                       *)
(***************************************************************************)
\* the event the fields of the last payload give on their own
CanonicalEvent ==
    IF last.topic = device_topic
    THEN PyDict([eventType   |-> MedicalDeviceLog,
                 timestamp   |-> PyStr(Field(1)),
                 raw_payload |-> PyStr(last.payload),
                 device      |-> PyDict([id      |-> PyStr(Field(2)),
                                         status  |-> PyStr(Field(6)),
                                         metrics |-> PyDict(
                                             [heart_rate_bpm |-> int(Field(4)).val,
                                              spo2_percent   |-> int(Field(5)).val])]),
                 patient     |-> PyDict([id |-> PyStr(Field(3))])])
    ELSE PyDict([eventType   |-> NetworkAuthLog,
                 timestamp   |-> PyStr(Field(1)),
                 raw_payload |-> PyStr(last.payload),
                 network     |-> PyDict([source_ip  |-> PyStr(Field(4)),
                                         log_source |-> PyStr(Field(2))]),
                 action      |-> PyDict([type |-> PyStr(Field(5)),
                                         target_resource_id |-> PyStr(Field(6))]),
                 user        |-> PyDict([id |-> PyStr(Field(3))])])

\* the last payload is well formed for its topic
WellFormed == WellFormedDevice \/ WellFormedNetwork

\* the rows a lookup's SELECT matches for the value it is given
Rows(query, value) ==
    {r \in DOMAIN Queries[query].table :
        Queries[query].table[r][Queries[query].key] = value}

\* the value the i-th lookup of the last message searched for
Searched(i) ==
    CASE last.queries[i] = "device_by_id"  -> PyStr(Field(2))
      [] last.queries[i] = "patient_by_id" -> PyStr(Field(3))
      [] last.queries[i] = "user_by_id"    -> PyStr(Field(3))
      [] last.queries[i] = "device_by_ip"  -> PyStr(Field(4))
      [] last.queries[i] = "doctor_by_id"  ->
             patients_table[Field(3)].assigned_doctor_id

\* the i-th lookup of the last message returned a record
Hit(i) == last.outcomes[i] = "ok" /\ Rows(last.queries[i], Searched(i)) # {}

\* the i-th lookup of the last message returned no record
Missed(i) == last.outcomes[i] \in {"ok", "dberr"} /\ ~Hit(i)

(***************************************************************************)
(* C11.  Lookup miss leaves the event unchanged: when every lookup made    *)
(* for a well-formed payload returns no record, the event returned is      *)
(* equal to the canonical event built from the payload alone, no overlay   *)
(* key is added, and the event is returned and handed to store_event.      *)
(***************************************************************************)
C11_LookupMissIsIdentity ==
    (WellFormed /\ \A i \in 1..Len(last.queries) : Missed(i)) =>
        /\ Len(last.queries) = 2
        /\ last.event = CanonicalEvent
        /\ Ran("store")

\* a network payload whose user and source_ip are unknown gave its canonical event
C11_Witness ==
    /\ WellFormedNetwork
    /\ Field(3) = USR8 /\ Field(4) = <<>>
    /\ last.outcomes[1] = "ok" /\ last.outcomes[2] = "ok"
    /\ last.event = CanonicalEvent
    /\ Ran("update")


\* the columns of the device overlay
DeviceOverlay == {"device_type", "location", "department", "ip_address"}

(***************************************************************************)
(* C12.  Two device-log events for the same device: when the DeviceDT      *)
(* exists from an earlier event and a later device event carries no        *)
(* device overlay (only id, status and metrics), the DeviceDT's status is  *)
(* the later event's status and its device_type, location, department and  *)
(* ip_address are what the earlier event left.                             *)
(***************************************************************************)
C12_StatusOnlyKeepsOverlay ==
    (/\ WellFormedDevice
     /\ Ran("update")
     /\ PyStr(Field(2)) \in DOMAIN prev.devices
     /\ DOMAIN last.event.d["device"].d \cap DeviceOverlay = {})
        => /\ devices[PyStr(Field(2))].status = PyStr(Field(6))
           /\ \A f \in DeviceOverlay :
                  devices[PyStr(Field(2))][f] = prev.devices[PyStr(Field(2))][f]

\* the first event gave D1 its overlay and status OK; the second, whose
\* device lookup found nothing, gave the empty status of its payload
C12_Witness ==
    /\ msgs = 2
    /\ WellFormedDevice
    /\ Ran("update")
    /\ Field(2) = DEV1
    /\ PyStr(DEV1) \in DOMAIN prev.devices
    /\ prev.devices[PyStr(DEV1)].status = PyStr(<<"O", "K">>)
    /\ DOMAIN last.event.d["device"].d \cap DeviceOverlay = {}
    /\ devices[PyStr(DEV1)].status = PyStr(<<>>)
    /\ devices[PyStr(DEV1)].location = PyStr(<<"I">>)
    /\ devices[PyStr(DEV1)].ip_address = PyStr(IP5)


\* what an entry of a returned list shows when it is read: get_state returns
\* self.__dict__, the twin's own dict and no copy, so the twin as it is now
get_state(entry) == Colls[Coll(entry.dt)][entry.key]

(***************************************************************************)
(* C13.  Each snapshot update_from_event returns is the state of the       *)
(* touched aggregate right after that event's merge, there is one entry    *)
(* per aggregate touched, and a snapshot a caller holds from the call      *)
(* before still shows that post-update state after the next event.  The    *)
(* code returns the twin's own __dict__, which the next event changes.     *)
(***************************************************************************)
C13_SnapshotsAreStable ==
    /\ \A i, j \in 1..Len(last.updated_states) :
          last.updated_states[i] = last.updated_states[j] => i = j
    /\ \A i \in 1..Len(held) :
          get_state(held[i]) = prev[Coll(held[i].dt)][held[i].key]


(***************************************************************************)
(* C14.  Aggregates are never deleted: no event, well formed, malformed    *)
(* or raising inside update_from_event, removes a key from the patients,   *)
(* devices or networks collection; the key sets only grow.                 *)
(***************************************************************************)
C14_NeverDeleted ==
    [][/\ DOMAIN patients \subseteq DOMAIN patients'
       /\ DOMAIN devices \subseteq DOMAIN devices'
       /\ DOMAIN networks \subseteq DOMAIN networks']_vars

\* an event raised inside update_from_event after twins of every kind existed
C14_Witness ==
    /\ last.raised
    /\ DOMAIN prev.patients # {} /\ DOMAIN prev.patients \subseteq DOMAIN patients
    /\ DOMAIN prev.devices # {} /\ DOMAIN prev.devices \subseteq DOMAIN devices
    /\ DOMAIN prev.networks # {} /\ DOMAIN prev.networks \subseteq DOMAIN networks


\* the last event applied is a MedicalDeviceLog whose list has a DeviceDT entry
\* for the event's device id
TouchedDeviceByMedical ==
    /\ Ran("update")
    /\ At(last.event, <<"eventType">>) = MedicalDeviceLog
    /\ \E i \in Entries("DeviceDT") :
           last.updated_states[i].key = At(last.event, <<"device", "id">>)

(***************************************************************************)
(* C15.  As claimed: after a MedicalDeviceLog that touches                 *)
(* DeviceDT[device_id], the device's current_patient_id equals the         *)
(* event's patient_id, and when the patient_id is absent or empty          *)
(* current_patient_id is null and no PatientDT is touched.  Fails for the  *)
(* empty patient_id, which is stored as the empty string.                  *)
(***************************************************************************)
C15_LinkLastWriterWinsOrNull ==
    TouchedDeviceByMedical =>
        /\ NonEmpty(At(last.event, <<"patient", "id">>)) =>
               devices[At(last.event, <<"device", "id">>)].current_patient_id
                   = At(last.event, <<"patient", "id">>)
        /\ ~NonEmpty(At(last.event, <<"patient", "id">>)) =>
               /\ devices[At(last.event, <<"device", "id">>)].current_patient_id = NoneV
               /\ Entries("PatientDT") = {}
               /\ patients = prev.patients

(***************************************************************************)
(* C15, amended.  After a MedicalDeviceLog that touches                    *)
(* DeviceDT[device_id], the device's current_patient_id is the event's     *)
(* patient_id as the event gives it: null when the event has none, the     *)
(* empty string when it is empty; in both of these cases no PatientDT is   *)
(* touched.                                                                *)
(***************************************************************************)
C15_LinkLastWriterWins ==
    TouchedDeviceByMedical =>
        /\ devices[At(last.event, <<"device", "id">>)].current_patient_id
               = At(last.event, <<"patient", "id">>)
        /\ ~NonEmpty(At(last.event, <<"patient", "id">>)) =>
               /\ Entries("PatientDT") = {}
               /\ patients = prev.patients

\* a device linked to PAT-1 got an event without patient_id: the link is null
C15_Witness ==
    /\ TouchedDeviceByMedical
    /\ At(last.event, <<"device", "id">>) = PyStr(DEV1)
    /\ PyStr(DEV1) \in DOMAIN prev.devices
    /\ prev.devices[PyStr(DEV1)].current_patient_id = PyStr(PAT1)
    /\ ~HasKey(last.event, "patient")
    /\ devices[PyStr(DEV1)].current_patient_id = NoneV

\* a device linked to PAT-1 got an event with an empty patient_id: the link is ''
C15_WitnessEmpty ==
    /\ TouchedDeviceByMedical
    /\ PyStr(DEV1) \in DOMAIN prev.devices
    /\ prev.devices[PyStr(DEV1)].current_patient_id = PyStr(PAT1)
    /\ At(last.event, <<"patient", "id">>) = PyStr(<<>>)
    /\ devices[PyStr(DEV1)].current_patient_id = PyStr(<<>>)


\* the field of a twin that holds its key
KeyField(dt) ==
    CASE dt = "PatientDT" -> "patient_id"
      [] dt = "DeviceDT"  -> "device_id"
      [] dt = "NetworkDT" -> "source_ip"

\* the keys of kind dt the last event added
NewKeys(dt) == DOMAIN Colls[Coll(dt)] \ DOMAIN prev[Coll(dt)]

(***************************************************************************)
(* C16.  Creation on first sight: a twin whose key the last event added    *)
(* holds its key, in every field the event supplies the event's value,     *)
(* and null in every other field; this holds for a DeviceDT first seen     *)
(* through a NetworkAuthLog as well as through a MedicalDeviceLog.  An     *)
(* event that raises inside the merge leaves the new twin with only the    *)
(* fields assigned before the fault.                                       *)
(***************************************************************************)
C16_CreationOnFirstSight ==
    Ran("update") =>
        \A dt \in Kinds : \A key \in NewKeys(dt) :
            \A field \in DOMAIN Colls[Coll(dt)][key] :
                Colls[Coll(dt)][key][field] =
                    IF field = KeyField(dt) THEN key
                    ELSE At(last.event,
                            SourcePath(dt, At(last.event, <<"eventType">>), field))


\* the last event added the twin or changed one of its fields
Changed(dt, key) ==
    key \in NewKeys(dt) \/ Colls[Coll(dt)][key] # prev[Coll(dt)][key]

\* the fields of a PatientDT and of a DeviceDT that the network merge rule
\* does not name
PatientMedicalFields ==
    {"full_name", "current_room", "last_heart_rate", "last_spo2", "last_device_status",
     "last_metric_update"}

DeviceMedicalFields ==
    {"department", "ip_address", "status", "current_patient_id", "last_metric_update"}

(***************************************************************************)
(* C17.  A NetworkAuthLog applies only its declared field subset: on every *)
(* PatientDT it leaves full_name, current_room, last_heart_rate,           *)
(* last_spo2, last_device_status and last_metric_update as they were, on   *)
(* every DeviceDT department, ip_address, status, current_patient_id and   *)
(* last_metric_update, and the only twins it adds or changes are           *)
(* NetworkDT[source_ip], the DeviceDT named by the source-device overlay   *)
(* and the PatientDT whose id is found in target_resource_id.              *)
(***************************************************************************)
C17_NetworkFrame ==
    (Ran("update") /\ At(last.event, <<"eventType">>) = NetworkAuthLog) =>
        /\ \A key \in DOMAIN patients : \A f \in PatientMedicalFields :
               patients[key][f] = Before("PatientDT", key)[f]
        /\ \A key \in DOMAIN devices : \A f \in DeviceMedicalFields :
               devices[key][f] = Before("DeviceDT", key)[f]
        /\ \A key \in DOMAIN patients :
               Changed("PatientDT", key) =>
                   /\ At(last.event, <<"action", "target_resource_id">>).k = "str"
                   /\ FirstPatientId(At(last.event, <<"action", "target_resource_id">>).s,
                                     key.s)
        /\ \A key \in DOMAIN devices :
               Changed("DeviceDT", key) =>
                   key = At(last.event, <<"network", "source_device_details", "device_id">>)
        /\ \A key \in DOMAIN networks :
               Changed("NetworkDT", key) =>
                   key = At(last.event, <<"network", "source_ip">>)

\* a network event on twins a device event had filled: the access fields
\* changed, the medical ones did not
C17_Witness ==
    /\ msgs = 2
    /\ Ran("update")
    /\ At(last.event, <<"eventType">>) = NetworkAuthLog
    /\ Len(last.updated_states) = 3
    /\ PyStr(DEV1) \in DOMAIN prev.devices /\ PyStr(PAT1) \in DOMAIN prev.patients
    /\ prev.devices[PyStr(DEV1)].status = PyStr(<<"O", "K">>)
    /\ devices[PyStr(DEV1)].status = PyStr(<<"O", "K">>)
    /\ devices[PyStr(DEV1)].current_patient_id = PyStr(PAT1)
    /\ devices[PyStr(DEV1)].last_user_id = PyStr(USR7)
    /\ patients[PyStr(PAT1)].last_heart_rate = PyInt(88)
    /\ patients[PyStr(PAT1)].last_access_action = PyStr(<<"L">>)


\* where an event of the last message's topic holds its canonical fields
CanonicalPaths ==
    {<<"eventType">>, <<"timestamp">>, <<"raw_payload">>}
    \cup (IF last.topic = device_topic
          THEN {<<"device", "id">>, <<"device", "status">>, <<"device", "metrics">>,
                <<"patient", "id">>}
          ELSE {<<"network", "source_ip">>, <<"network", "log_source">>,
                <<"action", "type">>, <<"action", "target_resource_id">>,
                <<"user", "id">>})

\* event has the sections of canonical and no other, and canonical's value in
\* every canonical field
KeepsCanonical(event, canonical) ==
    /\ DOMAIN event.d = DOMAIN canonical.d
    /\ \A path \in CanonicalPaths : At(event, path) = At(canonical, path)

(***************************************************************************)
(* C18.  Enrichment never replaces canonical fields: whatever the lookups  *)
(* return, every canonical field of the event returned for a well-formed   *)
(* payload (eventType, timestamp, raw_payload, device.id, device.status,   *)
(* device.metrics, patient.id, network.source_ip, network.log_source,      *)
(* action.type, action.target_resource_id, user.id) has the value parsed   *)
(* from the payload, and the event has the canonical event's sections and  *)
(* no other.                                                               *)
(***************************************************************************)
C18_CanonicalFieldsKept ==
    (WellFormed /\ Truthy(last.event)) => KeepsCanonical(last.event, CanonicalEvent)

\* every lookup of a device payload hit: the overlays are there and the
\* canonical fields are the payload's
C18_Witness ==
    /\ WellFormedDevice
    /\ Truthy(last.event)
    /\ Len(last.queries) = 3
    /\ \A i \in 1..3 : Hit(i)
    /\ last.event # CanonicalEvent
    /\ At(last.event, <<"device", "location">>) = PyStr(<<"I">>)
    /\ At(last.event, <<"patient", "assigned_doctor_details", "full_name">>)
           = PyStr(<<"A">>)
    /\ At(last.event, <<"device", "id">>) = PyStr(DEV1)
    /\ At(last.event, <<"patient", "id">>) = PyStr(PAT1)


\* the n-th field of a payload, as a string value
PayloadField(payload, n) == PyStr(split(payload)[n])

\* the n-th field of a payload, as an integer value
PayloadInt(payload, n) == int(split(payload)[n]).val

Answered(i) == last.outcomes[i] \in {"ok", "dberr"}

\* the doctor's columns as the staff table holds them for the patient's doctor
DoctorDetails ==
    PyDict([c \in Queries["doctor_by_id"].cols |->
               staff_table[patients_table[Field(3)].assigned_doctor_id.s][c]])

(***************************************************************************)
(* C20.  Device-log lookup sequence: for a well-formed device payload the  *)
(* device-by-id lookup is made first; once it has answered, hit or miss,   *)
(* the patient-by-id lookup is made; once that has answered, the doctor    *)
(* lookup is made iff the patient lookup hit and the record's              *)
(* assigned_doctor_id is non-empty; the returned event holds doctor        *)
(* details iff the doctor lookup hit, under patient.assigned_doctor_details *)
(* and nowhere else.                                                       *)
(***************************************************************************)
C20_LookupSequence ==
    WellFormedDevice =>
        /\ Len(last.queries) >= 1 /\ last.queries[1] = "device_by_id"
        /\ Answered(1) => (Len(last.queries) >= 2 /\ last.queries[2] = "patient_by_id")
        /\ (Answered(1) /\ Answered(2)) =>
              /\ Len(last.queries) <= 3
              /\ (Len(last.queries) = 3 /\ last.queries[3] = "doctor_by_id")
                     <=> (Hit(2) /\ NonEmpty(patients_table[Field(3)].assigned_doctor_id))
        /\ Truthy(last.event) =>
              /\ HasKey(last.event.d["patient"], "assigned_doctor_details")
                     <=> (Len(last.queries) = 3 /\ Hit(3))
              /\ HasKey(last.event.d["patient"], "assigned_doctor_details") =>
                     last.event.d["patient"].d["assigned_doctor_details"] = DoctorDetails
              /\ {"assigned_doctor_details", "role", "is_on_shift"}
                     \cap (DOMAIN last.event.d \cup DOMAIN last.event.d["device"].d) = {}
              /\ {"role", "is_on_shift"} \cap DOMAIN last.event.d["patient"].d = {}

\* the device is unknown and the patient is known but has no doctor: two
\* lookups, the patient overlay and no doctor details
C20_Witness ==
    /\ WellFormedDevice
    /\ Field(3) = PAT3
    /\ last.queries = <<"device_by_id", "patient_by_id">>
    /\ Missed(1) /\ Hit(2)
    /\ At(last.event, <<"patient", "full_name">>) = PyStr(<<"K">>)
    /\ ~HasKey(last.event.d["patient"], "assigned_doctor_details")

\* the patient's doctor lookup found nothing: three lookups, no doctor details
C20_WitnessDoctorMiss ==
    /\ WellFormedDevice
    /\ Len(last.queries) = 3
    /\ Hit(2) /\ Missed(3)
    /\ Truthy(last.event)
    /\ ~HasKey(last.event.d["patient"], "assigned_doctor_details")


\* the fields of a PatientDT and of a DeviceDT that only the network merge
\* rule names
PatientAccessFields ==
    {"last_accessed_by_user_id", "last_access_action", "last_access_time"}

DeviceNetworkFields == {"last_user_id", "last_action_from_device", "last_network_update"}

(***************************************************************************)
(* C21.  A MedicalDeviceLog changes only its own field subset: it leaves   *)
(* every NetworkDT and the key set of networks as they were, on every      *)
(* PatientDT last_accessed_by_user_id, last_access_action and              *)
(* last_access_time, on every DeviceDT last_user_id,                       *)
(* last_action_from_device and last_network_update, and the only twins it  *)
(* adds or changes are the PatientDT keyed by the event's patient id and   *)
(* the DeviceDT keyed by its device id.                                    *)
(***************************************************************************)
C21_MedicalFrame ==
    (Ran("update") /\ At(last.event, <<"eventType">>) = MedicalDeviceLog) =>
        /\ networks = prev.networks
        /\ \A key \in DOMAIN patients : \A f \in PatientAccessFields :
               patients[key][f] = Before("PatientDT", key)[f]
        /\ \A key \in DOMAIN devices : \A f \in DeviceNetworkFields :
               devices[key][f] = Before("DeviceDT", key)[f]
        /\ \A key \in DOMAIN patients :
               Changed("PatientDT", key) => key = At(last.event, <<"patient", "id">>)
        /\ \A key \in DOMAIN devices :
               Changed("DeviceDT", key) => key = At(last.event, <<"device", "id">>)

\* a device event on twins a network event had filled: the metrics changed,
\* the access fields and the NetworkDT did not
C21_Witness ==
    /\ msgs = 2
    /\ Ran("update")
    /\ At(last.event, <<"eventType">>) = MedicalDeviceLog
    /\ Len(last.updated_states) = 2
    /\ PyStr(IP5) \in DOMAIN networks
    /\ PyStr(DEV1) \in DOMAIN prev.devices /\ PyStr(PAT1) \in DOMAIN prev.patients
    /\ prev.patients[PyStr(PAT1)].last_heart_rate = NoneV
    /\ patients[PyStr(PAT1)].last_heart_rate = PyInt(88)
    /\ patients[PyStr(PAT1)].last_access_action = PyStr(<<"L">>)
    /\ patients[PyStr(PAT1)].last_access_time = PyStr(T1)
    /\ patients[PyStr(PAT1)].last_metric_update = PyStr(T1)
    /\ devices[PyStr(DEV1)].last_user_id = PyStr(USR7)
    /\ devices[PyStr(DEV1)].status = PyStr(<<"O", "K">>)


\* the events the enricher builds from the device messages and from the
\* network messages when every lookup is answered
MedicalEvents ==
    {process_device_message(decode(msg.payload).val, NoFault).ret :
         msg \in {x \in Messages : x.topic = device_topic /\ ReachesLookups(x)}}

NetworkEvents ==
    {process_network_message(decode(msg.payload).val, NoFault).ret :
         msg \in {x \in Messages : x.topic = network_topic /\ ReachesLookups(x)}}

\* a device event of a device and a network event whose source_ip the devices
\* table resolves to the same device
CorrelatedPairs ==
    {pair \in MedicalEvents \X NetworkEvents :
        /\ Truthy(At(pair[1], <<"device", "id">>))
        /\ At(pair[2], <<"network", "source_device_details", "device_id">>) =
               At(pair[1], <<"device", "id">>)}

\* update_from_event(first) and then update_from_event(second) on the manager
InOrder(hdt, first, second) == update_from_event(update_from_event(hdt, first), second)

\* both orders leave one DeviceDT for the device, under its id, leave the
\* other DeviceDTs alone and agree on the fields only one merge rule names
SameDeviceDT(d, mn, nm) ==
    /\ DOMAIN mn.devices = DOMAIN devices \cup {d}
    /\ DOMAIN nm.devices = DOMAIN devices \cup {d}
    /\ \A key \in DOMAIN devices \ {d} :
           mn.devices[key] = devices[key] /\ nm.devices[key] = devices[key]
    /\ \A f \in DeviceMedicalFields \cup DeviceNetworkFields :
           mn.devices[d][f] = nm.devices[d][f]
    /\ mn.devices[d].last_metric_update # NoneV
    /\ mn.devices[d].last_network_update # NoneV

(***************************************************************************)
(* C22.  Cross-schema device correlation: from any state of the manager, a *)
(* MedicalDeviceLog of device d and a NetworkAuthLog whose source_ip       *)
(* resolves to d update the one entry devices[d], and in either order the  *)
(* resulting DeviceDT has the same status, current_patient_id,             *)
(* last_metric_update, department and ip_address and the same              *)
(* last_user_id, last_action_from_device and last_network_update.          *)
(***************************************************************************)
C22_DeviceCorrelation ==
    \A pair \in CorrelatedPairs :
        SameDeviceDT(At(pair[1], <<"device", "id">>),
                     InOrder(Colls, pair[1], pair[2]),
                     InOrder(Colls, pair[2], pair[1]))

\* the network event of the device's address first and the device's own event
\* after it: the one DeviceDT holds what each of them brought
C22_Witness ==
    /\ msgs = 2
    /\ At(last.event, <<"eventType">>) = MedicalDeviceLog
    /\ <<last.event, CHOOSE n \in NetworkEvents :
                         At(n, <<"network", "source_ip">>) = PyStr(IP5)>>
           \in CorrelatedPairs
    /\ DOMAIN devices = {PyStr(DEV1)}
    /\ DOMAIN prev.devices = {PyStr(DEV1)}
    /\ prev.devices[PyStr(DEV1)].last_network_update = PyStr(T1)
    /\ prev.devices[PyStr(DEV1)].last_metric_update = NoneV
    /\ devices[PyStr(DEV1)].last_network_update = PyStr(T1)
    /\ devices[PyStr(DEV1)].last_metric_update = PyStr(T2)
    /\ devices[PyStr(DEV1)].ip_address = PyStr(IP5)
    /\ devices[PyStr(DEV1)].last_action_from_device = PyStr(<<"L">>)


(***************************************************************************)
(* C23.  Key identity: in every reachable state every key of patients, of  *)
(* devices and of networks is a non-empty string, the twin stored under it *)
(* holds it in its identifying field (patient_id, device_id, source_ip),   *)
(* and the last event left the identifying field of every twin that was    *)
(* there before it as it was.                                              *)
(***************************************************************************)
C23_KeyIdentity ==
    \A dt \in Kinds : \A key \in DOMAIN Colls[Coll(dt)] :
        /\ key.k = "str" /\ key.s # <<>>
        /\ Colls[Coll(dt)][key][KeyField(dt)] = key
        /\ key \in DOMAIN prev[Coll(dt)] =>
               Colls[Coll(dt)][key][KeyField(dt)] = prev[Coll(dt)][key][KeyField(dt)]

\* a second event changed a patient's twin and a device's that the first had
\* created, and all three collections hold a twin
C23_Witness ==
    /\ msgs = 2
    /\ Ran("update")
    /\ networks # EmptyMap
    /\ \E key \in DOMAIN prev.patients : patients[key] # prev.patients[key]
    /\ \E key \in DOMAIN prev.devices : devices[key] # prev.devices[key]


\* the last step was a message delivered to on_message (a direct call of the
\* manager has no topic)
MessageDelivered == last.topic # ""

(***************************************************************************)
(* C24.  Unrecognised input is inert: a message whose topic is neither the *)
(* device topic nor the network topic causes no reference lookup, no       *)
(* store_event call and no update of the twins, and leaves the three       *)
(* collections as they were; update_from_event given an event whose        *)
(* eventType is neither 'MedicalDeviceLog' nor 'NetworkAuthLog' returns    *)
(* the empty list and leaves the three collections as they were.           *)
(***************************************************************************)
C24_UnrecognisedIsInert ==
    /\ (MessageDelivered /\ last.topic \notin {device_topic, network_topic}) =>
           /\ last.queries = <<>> /\ last.outcomes = <<>>
           /\ ~Ran("store") /\ ~Ran("update")
           /\ last.updated_states = <<>>
           /\ Colls = prev
    /\ (Ran("update")
            /\ At(last.event, <<"eventType">>) \notin {MedicalDeviceLog, NetworkAuthLog}) =>
           /\ last.updated_states = <<>>
           /\ Colls = prev

\* a well-formed device row arrives on another topic after a message that
\* filled the twins
C24_Witness ==
    /\ msgs = 2
    /\ MessageDelivered /\ last.topic \notin {device_topic, network_topic}
    /\ CommaCount(last.payload) = 5
    /\ PyStr(PAT1) \in DOMAIN patients /\ PyStr(DEV1) \in DOMAIN devices
    /\ running

\* an event of another type is handed to update_from_event after an event
\* that filled the twins
C24_WitnessEventType ==
    /\ msgs = 2
    /\ ~MessageDelivered /\ Ran("update")
    /\ At(last.event, <<"eventType">>) = PyStr(<<"O">>)
    /\ At(last.event, <<"patient", "id">>) = PyStr(PAT1)
    /\ PyStr(PAT2) \in DOMAIN patients /\ PyStr(PAT1) \notin DOMAIN patients

====
